---------------------------- MODULE Spec2Model ----------------------------
(***************************************************************************)
(* Model of the Track routes of da-pages-be (src/routes/tracks.js) over    *)
(* the Track collection (src/models/Track.js) and the Playlist collection. *)
(*                                                                         *)
(* Every request is a small process: its validation middleware runs when   *)
(* the request starts, and every `await` on the store is one step, which   *)
(* the store may reject.                                                   *)
(*                                                                         *)
(* The store's faults are part of the model: any awaited call may be       *)
(* rejected.  A property about what a request does is read for the calls   *)
(* the store accepted; what happens on a rejected call is the subject of   *)
(* the best-effort property.                                               *)
(*                                                                         *)
(* A string is the pair <<pad, body>>: pad counts the surrounding white    *)
(* space, body is the length of what trim() leaves (or, for a URL field,   *)
(* the tag "url" / "junk").  An absent (undefined) field is <<>>.          *)
(***************************************************************************)
EXTENDS Integers, Sequences, FiniteSets, TLC

\* ------------------------------------------------------------ bounds ----
\* Number of Track documents that can be created in one behaviour.
MaxTracks == 2
\* Longest playlists array of a request body.
MaxPlaylistsLen == 2
\* Largest page number and largest limit of a list request.
MaxPage == 3
MaxLimit == 2
\* Number of Track documents created in a behaviour of concurrent callers.
MaxConcTracks == 1
\* Levels of subfolders below the root that the upstream's listings show.
MaxDepth == 2
\* Resources the upstream returns to one cursor loop.
MaxResources == 2
\* Upstream calls of one cursor loop that are counted (more are made).
MaxCalls == 3

\* -------------------------------------------------- program constants ----
MaxTitleLen == 200
MaxAuthorLen == 100
MaxDescriptionLen == 500
MaxCategoryLen == 50
ObjectIdLen == 24
DefaultPage == 1
DefaultLimit == 10

\* ------------------------------------------------------------ values ----
Clients == {"c1"}

Absent == <<>>
Str(pad, body) == <<pad, body>>
Trim(v) == IF v = Absent THEN Absent ELSE [v EXCEPT ![1] = 0]
IsLength(v, max) == v[2] <= max
IsURL(v) == v[2] = "url"

\* A string whose characters matter (a search term, a field that a search
\* reads) is spelled out: <<pad, length, characters>>.  The characters of a
\* string given by its length alone are that many copies of "x".
Txt(w) == <<0, Len(w), w>>
Chars(v) == IF Len(v) = 3 THEN v[3] ELSE [i \in 1..v[2] |-> "x"]
\* if (category) / if (author) / if (search): undefined and '' are falsy.
Truthy(v) == v # Absent /\ v[2] > 0

\* { $regex: term, $options: 'i' }: the term is the source of a regular
\* expression.  "." stands for any character, "(" alone opens a group that
\* is never closed, every other character of the model stands for itself.
Fold(ch) == IF ch = "A" THEN "a" ELSE IF ch = "B" THEN "b" ELSE ch
RegexCompiles(pat) == \A k \in DOMAIN pat : pat[k] # "("
RegexMatchesAt(pat, text, i) ==
  \A k \in DOMAIN pat : pat[k] = "." \/ Fold(pat[k]) = Fold(text[i + k - 1])
RegexTest(pat, text) ==
  \E i \in 1..(Len(text) - Len(pat) + 1) : RegexMatchesAt(pat, text, i)

\* Track identifiers: 1..MaxTracks are the ObjectIds the driver hands out,
\* GhostId is a well-formed ObjectId that no document ever has, BadId is a
\* string that is no ObjectId.
TrackIds == 1..MaxTracks
\* The ObjectIds handed out so far: a caller learns a Track's identifier
\* from an answer.  Every other well-formed identifier is as good as GhostId.
Issued(next) == 1..(next - 1)
GhostId == 0
BadId == -1
IsMongoId(id) == id # BadId

\* Playlist identifiers as they appear in a request body.  "p1" and "p2" are
\* stored Playlists, "p3" is a well-formed identifier of no Playlist,
\* "short" has 23 hex characters and "nonhex" 24 characters, one not hex.
StoredPlaylistIds == {"p1", "p2"}
WellFormedPlaylistIds == StoredPlaylistIds \cup {"p3"}
BodyPlaylistIds == WellFormedPlaylistIds \cup {"short", "nonhex"}
PidLen(p) == IF p = "short" THEN ObjectIdLen - 1 ELSE ObjectIdLen
PidHex(p) == p # "nonhex"

\* /^[0-9a-fA-F]{24}$/.test(playlistId)
OnlyLengthTested(p) == PidLen(p) = ObjectIdLen
IsObjectIdString(p) == PidLen(p) = ObjectIdLen /\ PidHex(p)

\* The playlists value of a body: absent, a non-array, or an array.
NoPlaylists == [present |-> FALSE, array |-> FALSE, ids |-> <<>>]
NotArray == [present |-> TRUE, array |-> FALSE, ids |-> <<>>]
PlArray(s) == [present |-> TRUE, array |-> TRUE, ids |-> s]

SeqsUpTo(S, n) == UNION {[1..k -> S] : k \in 0..n}
Range(s) == {s[i] : i \in DOMAIN s}
Min(a, b) == IF a <= b THEN a ELSE b

\* ------------------------------------------------------ request input ----
EmptyBody ==
  [title |-> Absent, author |-> Absent, description |-> Absent,
   category |-> Absent, thumbnail |-> Absent, audioUrl |-> Absent,
   playlists |-> NoPlaylists]

FullBody ==
  [title |-> Str(1, MaxTitleLen), author |-> Str(1, MaxAuthorLen),
   description |-> Str(0, MaxDescriptionLen), category |-> Str(0, MaxCategoryLen),
   thumbnail |-> Str(1, "url"), audioUrl |-> Str(0, "url"),
   playlists |-> NoPlaylists]

PlaylistsValues ==
  {NoPlaylists, NotArray} \cup {PlArray(s) : s \in SeqsUpTo(BodyPlaylistIds, MaxPlaylistsLen)}

\* The request bodies the clients send: every playlists value, a body with
\* every other field set to the longest value its rule takes (padded with
\* white space where the rule trims), and one body per field that breaks
\* that field's rule.
Bodies ==
  {[EmptyBody EXCEPT !.playlists = p] : p \in PlaylistsValues}
  \cup {FullBody,
        [EmptyBody EXCEPT !.title = Str(0, MaxTitleLen + 1)],
        [EmptyBody EXCEPT !.author = Str(0, MaxAuthorLen + 1)],
        [EmptyBody EXCEPT !.description = Str(0, MaxDescriptionLen + 1)],
        [EmptyBody EXCEPT !.category = Str(0, MaxCategoryLen + 1)],
        [EmptyBody EXCEPT !.thumbnail = Str(0, "junk")],
        [EmptyBody EXCEPT !.audioUrl = Str(0, "junk")]}

\* --------------------------------------------------------- validation ----
\* body(f).optional().trim().isLength({ max })
TooLong(v, max) == v # Absent /\ ~IsLength(Trim(v), max)
NotURL(v) == v # Absent /\ ~IsURL(Trim(v))

\* body('playlists').optional().isArray().custom(...): the errors of the
\* playlists rule.
PlaylistsErrors(p) ==
  IF ~p.present THEN {}
  ELSE (IF ~p.array THEN {"Playlists must be an array"} ELSE {})
       \cup (IF p.array /\ \E i \in DOMAIN p.ids : ~IsObjectIdString(p.ids[i])
             THEN {"Invalid playlist ID format"} ELSE {})
       \cup (IF ~p.array THEN {"Invalid playlist ID format"} ELSE {})

trackValidationRules(b) ==
  (IF TooLong(b.title, MaxTitleLen) THEN {"title"} ELSE {})
  \cup (IF TooLong(b.author, MaxAuthorLen) THEN {"author"} ELSE {})
  \cup (IF TooLong(b.description, MaxDescriptionLen) THEN {"description"} ELSE {})
  \cup (IF NotURL(b.thumbnail) THEN {"thumbnail"} ELSE {})
  \cup (IF TooLong(b.category, MaxCategoryLen) THEN {"category"} ELSE {})
  \cup (IF NotURL(b.audioUrl) THEN {"audioUrl"} ELSE {})
  \cup PlaylistsErrors(b.playlists)

\* param('id').isMongoId()
IdErrors(id) == IF IsMongoId(id) THEN {} ELSE {"Invalid track ID"}

\* The body as the handler sees it: the sanitizers of the chain have run.
Sanitize(b) ==
  [title |-> Trim(b.title), author |-> Trim(b.author),
   description |-> Trim(b.description), category |-> Trim(b.category),
   thumbnail |-> Trim(b.thumbnail), audioUrl |-> Trim(b.audioUrl),
   playlists |-> b.playlists]

\* --------------------------------------------------------- the store ----
\* The paths of trackSchema.  Mongoose's strict mode drops every other key
\* of a document or an update.
SchemaPaths ==
  {"title", "author", "description", "category", "thumbnail", "audioUrl"}

\* new Track(data): the document that save() writes.
NewTrackDoc(b, now) ==
  [title |-> b.title, author |-> b.author, description |-> b.description,
   category |-> b.category, thumbnail |-> b.thumbnail, audioUrl |-> b.audioUrl,
   playlists |-> IF "playlists" \in SchemaPaths /\ b.playlists.present
                 THEN b.playlists.ids ELSE <<>>,
   createdAt |-> now]

Keep(old, new) == IF new = Absent THEN old ELSE new
\* findByIdAndUpdate(id, updateData): the supplied schema paths are set.
MergeDoc(d, b) ==
  [title |-> Keep(d.title, b.title), author |-> Keep(d.author, b.author),
   description |-> Keep(d.description, b.description),
   category |-> Keep(d.category, b.category),
   thumbnail |-> Keep(d.thumbnail, b.thumbnail),
   audioUrl |-> Keep(d.audioUrl, b.audioUrl),
   playlists |-> IF "playlists" \in SchemaPaths /\ b.playlists.present
                 THEN b.playlists.ids ELSE d.playlists,
   createdAt |-> d.createdAt]

\* currentTrack.playlists || []
OldPlaylists(d) == IF "playlists" \in SchemaPaths THEN d.playlists ELSE <<>>

\* A tracks array is kept up to the order of its entries: the function from
\* the identifiers it holds to the number of times it holds each.
NoTracks == <<>>
Copies(a, id) == IF id \in DOMAIN a THEN a[id] ELSE 0

\* { $addToSet: { tracks: id } } and { $pull: { tracks: id } } on one array.
Push(a, id) == [x \in DOMAIN a \cup {id} |-> IF x = id THEN Copies(a, id) + 1 ELSE a[x]]
AddToSet(a, id) == IF id \in DOMAIN a THEN a ELSE Push(a, id)
Pull(a, id) == [x \in DOMAIN a \ {id} |-> a[x]]

\* oldPlaylists.filter(p => !newPlaylists.includes(p.toString()))
playlistsToRemove(old, new) == SelectSeq(old, LAMBDA p : p \notin Range(new))
\* newPlaylists.filter(p => !oldPlaylists.some(op => op.toString() === p))
playlistsToAdd(old, new) == SelectSeq(new, LAMBDA p : p \notin Range(old))

\* -------------------------------------------------------------- state ----
VARIABLES
  tracks,     \* the Track collection: ObjectId -> document
  playlists,  \* the Playlist collection: identifier -> its tracks array
  nextId,     \* the next ObjectId (and creation time) a saved Track gets
  req,        \* per client: the request in flight and its bookkeeping
  pages       \* the Page collection: the documents in the order of creation

vars == <<tracks, playlists, nextId, req, pages>>

\* A query parameter is <<>> when absent and <<n>> when given.
NoParam == <<>>
Param(n) == <<n>>

IdleReq ==
  [kind |-> "none", pc |-> "idle", id |-> GhostId, body |-> EmptyBody,
   page |-> NoParam, limit |-> NoParam, category |-> Absent,
   author |-> Absent, search |-> Absent,
   old |-> <<>>, todo |-> <<>>,
   status |-> 0, data |-> <<>>, items |-> <<>>, total |-> 0,
   pagination |-> <<>>,
   \* bookkeeping of the request, read by the properties only
   malformed |-> FALSE, wrote |-> FALSE, rejected |-> FALSE, attempts |-> <<>>,
   saves |-> 0, env |-> "unread",
   \* what a failure answer carries besides its fixed text
   detail |-> "none",
   \* a media proxy request: the walk's call stack and result, the cursor
   \* loop's resources so far, the upstream calls made
   stack |-> <<>>, out |-> <<>>, got |-> 0, cursor |-> "null", calls |-> 0,
   \* its environment and displayName, the error text of its answer, the
   \* upstream's answer to a delete, the folders whose listing failed
   config |-> <<>>, displayName |-> "undefined", error |-> "none",
   answer |-> <<>>, failed |-> {},
   \* the responses the handler has sent
   responses |-> 0,
   \* a Page request: the title and the slug of its body
   pageBody |-> [title |-> <<>>, slug |-> <<>>],
   preTracks |-> <<>>, prePlaylists |-> <<>>, prePages |-> <<>>]

Init ==
  /\ tracks = <<>>
  /\ playlists = [p \in StoredPlaylistIds |-> NoTracks]
  /\ nextId = 1
  /\ req = [c \in Clients |-> IdleReq]
  /\ pages = <<>>

\* A client has one request in flight at a time: it sends the next when the
\* last was answered.
Idle(c) == req[c].pc = "idle"

\* The input breaks a rule of the route: a malformed track id where the route
\* takes one, or a body field outside its constraint.
BadBody(b) ==
  \/ b.title # Absent /\ b.title[2] > MaxTitleLen
  \/ b.author # Absent /\ b.author[2] > MaxAuthorLen
  \/ b.description # Absent /\ b.description[2] > MaxDescriptionLen
  \/ b.category # Absent /\ b.category[2] > MaxCategoryLen
  \/ b.thumbnail # Absent /\ b.thumbnail[2] = "junk"
  \/ b.audioUrl # Absent /\ b.audioUrl[2] = "junk"
  \/ b.playlists.present /\ ~b.playlists.array
  \/ \E i \in DOMAIN b.playlists.ids : b.playlists.ids[i] \in {"short", "nonhex"}

\* The collections as a request found them, kept for the properties of the
\* runs of one caller.  Between concurrent callers a request has no single
\* "before", and nothing is kept.
Before(x) == IF DOMAIN req = Clients THEN x ELSE <<>>

\* handleValidationErrors: 400 when the chain collected an error, next()
\* otherwise.
Begin(c, kind, id, b, errors, malformed, first) ==
  req' = [req EXCEPT ![c] =
    [IdleReq EXCEPT
      !.kind = kind, !.id = id,
      !.body = IF errors = {} THEN Sanitize(b) ELSE EmptyBody,
      !.pc = IF errors = {} THEN first ELSE "done",
      !.status = IF errors = {} THEN 0 ELSE 400,
      !.responses = IF errors = {} THEN 0 ELSE 1,
      !.malformed = malformed,
      !.preTracks = Before(tracks),
      !.prePlaylists = Before(playlists)]]

\* return res.status(...).json(...): the response is sent and the handler
\* is left.
RespondsAndGoesOn(r, status, data) ==
  [r EXCEPT !.status = status, !.data = data, !.responses = @ + 1]
Respond(r, status, data) ==
  [r EXCEPT !.pc = "done", !.status = status, !.data = data, !.responses = @ + 1]

\* catch (error) { res.status(500).json({ success: false, message: '...',
\*   error: process.env.NODE_ENV === 'development' ? error.message : undefined }) }
NodeEnvs == {"development", "production"}
ErrorField(env) == IF env = "development" THEN "error.message" ELSE "undefined"
Caught(r, env) ==
  Respond([r EXCEPT !.env = env, !.detail = ErrorField(env)], 500, <<>>)

\* The steps of a loop over playlist identifiers, in the order the loop takes
\* them.
Steps(op, pids) == [i \in DOMAIN pids |-> [op |-> op, pid |-> pids[i]]]

\* ------------------------------------------------- POST /api/tracks ----
PostRequest(c, bodies, max) ==
  /\ Idle(c)
  /\ nextId <= max
  /\ \E b \in bodies :
       Begin(c, "POST", GhostId, b, trackValidationRules(b), BadBody(b), "save")
  /\ UNCHANGED <<tracks, playlists, nextId>>

StartPost(c) == PostRequest(c, Bodies, MaxTracks)

\* const track = new Track(trackData); await track.save();
PostSave(c) ==
  LET r == req[c] IN
  /\ r.kind = "POST" /\ r.pc = "save"
  /\ \/ /\ \E env \in NodeEnvs :
            req' = [req EXCEPT ![c] =
              Caught([r EXCEPT !.rejected = TRUE, !.saves = @ + 1], env)]
        /\ UNCHANGED <<tracks, playlists, nextId>>
     \/ /\ tracks' = [i \in DOMAIN tracks \cup {nextId} |->
                        IF i = nextId THEN NewTrackDoc(r.body, nextId) ELSE tracks[i]]
        /\ nextId' = nextId + 1
        /\ req' = [req EXCEPT ![c] =
             IF r.body.playlists.present /\ Len(r.body.playlists.ids) > 0
             THEN [r EXCEPT !.id = nextId, !.wrote = TRUE, !.saves = @ + 1,
                            !.pc = "reconcile",
                            !.todo = Steps("add", r.body.playlists.ids)]
             ELSE Respond([r EXCEPT !.id = nextId, !.wrote = TRUE, !.saves = @ + 1],
                          201, <<nextId>>)]
        /\ UNCHANGED playlists

\* try { await Playlist.findByIdAndUpdate(...) } catch { console.error(...) }:
\* the loop goes on whether or not the store accepted the call.
StepAborts(ok) == ok
StepContinues(ok) == TRUE

\* Playlist.findByIdAndUpdate(pid, { $addToSet | $pull : { tracks: id } }),
\* called without upsert: an identifier of no Playlist matches nothing.
ApplyStepUpsert(pl, step, id) ==
  [q \in DOMAIN pl \cup {step.pid} |->
     IF q # step.pid THEN pl[q]
     ELSE IF step.op = "add" THEN AddToSet(IF q \in DOMAIN pl THEN pl[q] ELSE NoTracks, id)
     ELSE Pull(IF q \in DOMAIN pl THEN pl[q] ELSE NoTracks, id)]
ApplyStep(pl, step, id) ==
  IF step.pid \in DOMAIN pl
  THEN [pl EXCEPT ![step.pid] =
          IF step.op = "add" THEN AddToSet(@, id) ELSE Pull(@, id)]
  ELSE pl

\* One turn of a reconciliation loop: the awaited call.  A call the store
\* rejects changes nothing.
PlaylistStep(c, ok) ==
  LET r == req[c] IN
  /\ playlists' = IF ok THEN ApplyStep(playlists, Head(r.todo), r.id) ELSE playlists
  /\ UNCHANGED <<tracks, nextId>>

\* The loop moves on to the next identifier after every call.
RetryRejected(todo, ok) == IF ok THEN Tail(todo) ELSE todo
Remaining(todo, ok) == Tail(todo)

Logged(r, ok) ==
  [r EXCEPT !.attempts = Append(@, [op |-> Head(r.todo).op, pid |-> Head(r.todo).pid,
                                    ok |-> ok, stored |-> r.id \in DOMAIN tracks]),
            !.todo = Remaining(@, ok)]

\* The response is written after the loops: when no step is left.
RespondsAfterFirstStep(r) == FALSE
MoreSteps(r) == r.todo # <<>>

\* for (const playlistId of trackData.playlists) { ... }  res.status(201)
PostAdd(c) ==
  LET r == req[c] IN
  /\ r.kind = "POST" /\ r.pc = "reconcile"
  /\ \E ok \in BOOLEAN :
       /\ PlaylistStep(c, ok)
       /\ req' = [req EXCEPT ![c] =
            IF ~StepContinues(ok) THEN Respond(Logged(r, ok), 500, <<>>)
            ELSE IF MoreSteps(Logged(r, ok)) THEN Logged(r, ok)
            ELSE Respond(Logged(r, ok), 201, <<r.id>>)]

\* ---------------------------------------------- PUT /api/tracks/:id ----
PutRequest(c, ids, bodies) ==
  /\ Idle(c)
  /\ \E id \in ids, b \in bodies :
       Begin(c, "PUT", id, b, IdErrors(id) \cup trackValidationRules(b),
             id = BadId \/ BadBody(b), "findById")
  /\ UNCHANGED <<tracks, playlists, nextId>>

StartPut(c) == PutRequest(c, Issued(nextId) \cup {GhostId, BadId}, Bodies)

\* if (!currentTrack) return res.status(404)...
CheckSkipped(tr, id) == TRUE
CurrentTrackFound(tr, id) == id \in DOMAIN tr

\* const currentTrack = await Track.findById(id);
PutFindById(c) ==
  LET r == req[c] IN
  /\ r.kind = "PUT" /\ r.pc = "findById"
  /\ \/ \E env \in NodeEnvs :
            req' = [req EXCEPT ![c] = Caught([r EXCEPT !.rejected = TRUE], env)]
     \/ /\ ~CurrentTrackFound(tracks, r.id)
        /\ req' = [req EXCEPT ![c] = Respond(r, 404, <<>>)]
     \/ /\ CurrentTrackFound(tracks, r.id)
        /\ req' = [req EXCEPT ![c] =
             [r EXCEPT !.pc = "update",
                       !.old = IF r.id \in DOMAIN tracks
                               THEN OldPlaylists(tracks[r.id]) ELSE <<>>]]
  /\ UNCHANGED <<tracks, playlists, nextId>>

\* if (updateData.playlists !== undefined): the removals, then the additions.
PutSteps(old, pl) ==
  IF pl.present
  THEN Steps("pull", playlistsToRemove(old, pl.ids)) \o Steps("add", playlistsToAdd(old, pl.ids))
  ELSE <<>>

\* const track = await Track.findByIdAndUpdate(id, updateData, ...); then the
\* two filters, up to the first await of the loops.
PutUpdate(c) ==
  LET r == req[c]
      steps == PutSteps(r.old, r.body.playlists)
      here == r.id \in DOMAIN tracks
      data == IF here THEN <<r.id>> ELSE <<>>
  IN
  /\ r.kind = "PUT" /\ r.pc = "update"
  /\ \/ /\ \E env \in NodeEnvs :
            req' = [req EXCEPT ![c] =
              Caught([r EXCEPT !.rejected = TRUE, !.saves = @ + 1], env)]
        /\ UNCHANGED tracks
     \/ /\ tracks' = IF here THEN [tracks EXCEPT ![r.id] = MergeDoc(@, r.body)]
                     ELSE tracks
        /\ req' = [req EXCEPT ![c] =
             IF steps # <<>>
             THEN [r EXCEPT !.wrote = here, !.saves = @ + 1, !.data = data,
                            !.pc = "reconcile", !.todo = steps]
             ELSE Respond([r EXCEPT !.wrote = here, !.saves = @ + 1], 200, data)]
  /\ UNCHANGED <<playlists, nextId>>

\* for (const playlistId of playlistsToRemove) { ... }
\* for (const playlistId of playlistsToAdd) { ... }  res.json(...)
PutReconcile(c) ==
  LET r == req[c] IN
  /\ r.kind = "PUT" /\ r.pc = "reconcile"
  /\ \E ok \in BOOLEAN :
       /\ PlaylistStep(c, ok)
       /\ req' = [req EXCEPT ![c] =
            IF ~StepContinues(ok) THEN Respond(Logged(r, ok), 500, <<>>)
            ELSE IF MoreSteps(Logged(r, ok)) THEN Logged(r, ok)
            ELSE Respond(Logged(r, ok), 200, r.data)]

\* ------------------------------------------- DELETE /api/tracks/:id ----
DeleteRequest(c, ids) ==
  /\ Idle(c)
  /\ \E id \in ids :
       Begin(c, "DELETE", id, EmptyBody, IdErrors(id), id = BadId, "delete")
  /\ UNCHANGED <<tracks, playlists, nextId>>

StartDelete(c) == DeleteRequest(c, Issued(nextId) \cup {GhostId, BadId})

PullFromAll(pl, id) == [p \in DOMAIN pl |-> Pull(pl[p], id)]
\* What the delete handler does to the Playlist collection: nothing.
PlaylistsAfterDelete(pl, id) == pl

\* Track.findByIdAndDelete(id): the collection without the document of that
\* _id.
DeleteMany(tr, id) == [i \in {} |-> tr[i]]
FindByIdAndDelete(tr, id) == [i \in DOMAIN tr \ {id} |-> tr[i]]

\* if (!track) return res.status(404)...; res.json(...)
AlwaysDeleted(found) == 200
DeleteStatus(found) == IF found THEN 200 ELSE 404

\* const track = await Track.findByIdAndDelete(id);
DeleteTrack(c) ==
  LET r == req[c]
      found == r.id \in DOMAIN tracks
  IN
  /\ r.kind = "DELETE" /\ r.pc = "delete"
  /\ \/ /\ \E env \in NodeEnvs :
            req' = [req EXCEPT ![c] = Caught([r EXCEPT !.rejected = TRUE], env)]
        /\ UNCHANGED <<tracks, playlists>>
     \/ /\ tracks' = FindByIdAndDelete(tracks, r.id)
        /\ playlists' = IF found THEN PlaylistsAfterDelete(playlists, r.id) ELSE playlists
        /\ req' = [req EXCEPT ![c] =
             Respond([r EXCEPT !.wrote = found], DeleteStatus(found),
                     IF found THEN <<r.id, tracks[r.id].title>> ELSE <<>>)]
  /\ UNCHANGED nextId

\* ---------------------------------------------- GET /api/tracks/:id ----
StartGet(c) ==
  /\ Idle(c)
  /\ \E id \in Issued(nextId) \cup {GhostId, BadId} :
       Begin(c, "GET", id, EmptyBody, IdErrors(id), id = BadId, "findById")
  /\ UNCHANGED <<tracks, playlists, nextId>>

\* const track = await Track.findById(id).populate('playlists');
GetById(c) ==
  LET r == req[c] IN
  /\ r.kind = "GET" /\ r.pc = "findById"
  /\ \/ \E env \in NodeEnvs :
            req' = [req EXCEPT ![c] = Caught([r EXCEPT !.rejected = TRUE], env)]
     \/ /\ r.id \notin DOMAIN tracks
        /\ req' = [req EXCEPT ![c] = Respond(r, 404, <<>>)]
     \/ /\ r.id \in DOMAIN tracks
        /\ req' = [req EXCEPT ![c] = Respond(r, 200, <<r.id>>)]
  /\ UNCHANGED <<tracks, playlists, nextId>>

\* -------------------------------------------------- GET /api/tracks ----
PageOf(q) == IF q = NoParam THEN DefaultPage ELSE q[1]
LimitOf(q) == IF q = NoParam THEN DefaultLimit ELSE q[1]

\* const skip = (page - 1) * limit;
SkipFromZeroBasedPage(page, limit) == PageOf(page) * LimitOf(limit)
Skip(page, limit) == (PageOf(page) - 1) * LimitOf(limit)

\* let query = {}; if (category) ...; if (author) ...; if (search) ...
\* The query is the set of its top-level conditions.
SearchPaths == {"title", "description", "author", "category"}
BuildQuery(category, author, search) ==
  (IF Truthy(category) THEN {[key |-> "category", arg |-> category]} ELSE {})
  \cup (IF Truthy(author) THEN {[key |-> "author", arg |-> author]} ELSE {})
  \cup (IF Truthy(search) THEN {[key |-> "$or", arg |-> search]} ELSE {})
QueryOf(r) == BuildQuery(r.category, r.author, r.search)

\* The store compiles every $regex of a query before it runs it.
QueryCompiles(q) ==
  \A cond \in q : cond.key \in {"author", "$or"} => RegexCompiles(Chars(cond.arg))

\* { path: { $regex, $options: 'i' } }: a document without the path does not
\* match.
RegexOnPath(d, path, term) ==
  d[path] # Absent /\ RegexTest(Chars(term), Chars(d[path]))

\* One top-level condition of the query, on one document.
Condition(d, cond) ==
  IF cond.key = "category" THEN d.category = cond.arg
  ELSE IF cond.key = "author" THEN RegexOnPath(d, "author", cond.arg)
  ELSE \E path \in SearchPaths : RegexOnPath(d, path, cond.arg)

\* Track.find(query) / Track.countDocuments(query): a document matches when
\* it meets every top-level condition.
MatchesAny(d, q) == q = {} \/ \E cond \in q : Condition(d, cond)
Matches(d, q) == \A cond \in q : Condition(d, cond)
Matching(docs, q) == {i \in DOMAIN docs : Matches(docs[i], q)}

\* .sort({ createdAt: -1 })
RECURSIVE SortByCreatedAtDesc(_, _)
SortByCreatedAtDesc(docs, S) ==
  IF S = {} THEN <<>>
  ELSE LET m == CHOOSE i \in S : \A j \in S : docs[j].createdAt <= docs[i].createdAt
       IN  <<m>> \o SortByCreatedAtDesc(docs, S \ {m})

\* .skip(skip).limit(parseInt(limit)): a limit of 0 is no limit.
SkipLimit(s, skip, limit) ==
  IF limit = 0 THEN SubSeq(s, skip + 1, Len(s))
  ELSE SubSeq(s, skip + 1, Min(skip + limit, Len(s)))

\* Math.ceil(total / limit): a division by 0 gives Infinity or NaN, which
\* JSON writes as null.
TotalPagesRoundedDown(total, limit) ==
  IF limit = 0 THEN "null" ELSE total \div limit
TotalPages(total, limit) ==
  IF limit = 0 THEN "null" ELSE (total + limit - 1) \div limit

\* pagination: { currentPage, totalPages, totalItems, itemsPerPage }
Pagination(page, limit, total) ==
  [currentPage |-> PageOf(page), totalPages |-> TotalPages(total, LimitOf(limit)),
   totalItems |-> total, itemsPerPage |-> LimitOf(limit)]

\* The query strings the clients send.  Where the paging is looked at: every
\* page and limit with and without a category, and a search with each kind
\* of term.  Where the filters are: every combination of them with the
\* default paging.
SearchTerms ==
  {Txt(<<>>), Txt(<<"a">>), Txt(<<"A", "b">>), Txt(<<".">>), Txt(<<"(">>)}
ListQueries ==
  {[page |-> pg, limit |-> lm, category |-> ct, author |-> Absent, search |-> Absent] :
     pg \in {NoParam} \cup {Param(n) : n \in 0..MaxPage},
     lm \in {NoParam} \cup {Param(n) : n \in 0..MaxLimit},
     ct \in {Absent, Str(0, MaxCategoryLen)}}
  \cup
  {[page |-> NoParam, limit |-> NoParam, category |-> Absent, author |-> Absent,
    search |-> se] : se \in {Txt(<<".">>), Txt(<<"(">>)}}
FilterQueries ==
  {[page |-> NoParam, limit |-> NoParam, category |-> ct, author |-> au, search |-> se] :
     ct \in {Absent, Txt(<<"a">>)},
     au \in {Absent, Txt(<<"B">>)},
     se \in {Absent} \cup SearchTerms}
  \cup
  {[page |-> Param(1), limit |-> Param(1), category |-> Txt(<<"a">>), author |-> Absent,
    search |-> Absent]}

ListRequest(c, queries) ==
  /\ Idle(c)
  /\ \E q \in queries :
       req' = [req EXCEPT ![c] =
         [IdleReq EXCEPT !.kind = "LIST", !.pc = "find", !.page = q.page,
                         !.limit = q.limit, !.category = q.category,
                         !.author = q.author, !.search = q.search,
                         !.preTracks = Before(tracks),
      !.prePlaylists = Before(playlists)]]
  /\ UNCHANGED <<tracks, playlists, nextId>>

StartList(c) == ListRequest(c, ListQueries)

\* const tracks = await Track.find(query).populate('playlists').sort(...)
\*   .skip(skip).limit(parseInt(limit));  the store rejects a negative skip
\*   and a $regex that does not compile.
ListFind(c) ==
  LET r == req[c]
      skip == Skip(r.page, r.limit)
      sound == skip >= 0 /\ QueryCompiles(QueryOf(r))
  IN
  /\ r.kind = "LIST" /\ r.pc = "find"
  /\ \/ \E env \in NodeEnvs :
            req' = [req EXCEPT ![c] = Caught([r EXCEPT !.rejected = TRUE], env)]
     \/ /\ ~sound
        /\ \E env \in NodeEnvs : req' = [req EXCEPT ![c] = Caught(r, env)]
     \/ /\ sound
        /\ req' = [req EXCEPT ![c] =
             [r EXCEPT !.pc = "count",
                       !.items = SkipLimit(
                          SortByCreatedAtDesc(tracks, Matching(tracks, QueryOf(r))),
                          skip, LimitOf(r.limit))]]
  /\ UNCHANGED <<tracks, playlists, nextId>>

\* const total = await Track.countDocuments(query); res.json(...)
ListCount(c) ==
  LET r == req[c]
      total == Cardinality(Matching(tracks, QueryOf(r)))
  IN
  /\ r.kind = "LIST" /\ r.pc = "count"
  /\ \/ \E env \in NodeEnvs :
          req' = [req EXCEPT ![c] =
            Caught([r EXCEPT !.rejected = TRUE, !.items = <<>>], env)]
     \/ req' = [req EXCEPT ![c] =
          Respond([r EXCEPT !.total = total,
                            !.pagination = Pagination(r.page, r.limit, total)],
                  200, <<>>)]
  /\ UNCHANGED <<tracks, playlists, nextId>>

\* ------------------------------------------------------------- system ----
\* The response has been sent; the client is free for its next request.
Finish(c) ==
  /\ req[c].pc = "done"
  /\ req' = [req EXCEPT ![c] = IdleReq]
  /\ UNCHANGED <<tracks, playlists, nextId>>

Next ==
  \/ \E c \in DOMAIN req : StartPost(c) /\ UNCHANGED pages
  \/ \E c \in DOMAIN req : PostSave(c) /\ UNCHANGED pages
  \/ \E c \in DOMAIN req : PostAdd(c) /\ UNCHANGED pages
  \/ \E c \in DOMAIN req : StartPut(c) /\ UNCHANGED pages
  \/ \E c \in DOMAIN req : PutFindById(c) /\ UNCHANGED pages
  \/ \E c \in DOMAIN req : PutUpdate(c) /\ UNCHANGED pages
  \/ \E c \in DOMAIN req : PutReconcile(c) /\ UNCHANGED pages
  \/ \E c \in DOMAIN req : StartDelete(c) /\ UNCHANGED pages
  \/ \E c \in DOMAIN req : DeleteTrack(c) /\ UNCHANGED pages
  \/ \E c \in DOMAIN req : StartGet(c) /\ UNCHANGED pages
  \/ \E c \in DOMAIN req : GetById(c) /\ UNCHANGED pages
  \/ \E c \in DOMAIN req : StartList(c) /\ UNCHANGED pages
  \/ \E c \in DOMAIN req : ListFind(c) /\ UNCHANGED pages
  \/ \E c \in DOMAIN req : ListCount(c) /\ UNCHANGED pages
  \/ \E c \in DOMAIN req : Finish(c) /\ UNCHANGED pages

Spec == Init /\ [][Next]_vars

\* ------------------------------------------------ concurrent callers ----
\* Two callers whose requests interleave at every await.  They send the
\* well-formed requests that touch the relationship: creates and updates
\* that name one stored Playlist, and deletes; an update may name a Track
\* that was never stored.
ConcurrentClients == {"c1", "c2"}
ConcBodies ==
  {[EmptyBody EXCEPT !.playlists = PlArray(s)] : s \in {<<"p1">>}}

ConcStartPost(c) == PostRequest(c, ConcBodies, MaxConcTracks)
ConcStartPut(c) == PutRequest(c, Issued(nextId) \cup {GhostId}, ConcBodies)
ConcStartDelete(c) == DeleteRequest(c, Issued(nextId))
\* ... and lists of the whole collection, with the default paging and one
\* Track to the page.
ConcListQueries ==
  {[page |-> NoParam, limit |-> NoParam, category |-> Absent, author |-> Absent,
    search |-> Absent],
   [page |-> Param(1), limit |-> Param(1), category |-> Absent, author |-> Absent,
    search |-> Absent]}
ConcStartList(c) == ListRequest(c, ConcListQueries)

\* What the server does to the store when it starts: connectDB() and
\* app.listen(), no job that reads or repairs the collections.
RepairOnStart(tr, pl) == [p \in DOMAIN pl |-> NoTracks]
PlaylistsAfterStart(tr, pl) == pl

\* The process dies with requests in flight and is started again: the
\* requests are never answered, the store keeps what was written.
Crash ==
  /\ \E c \in DOMAIN req : req[c].pc \notin {"idle", "done"}
  /\ req' = [c \in DOMAIN req |-> IdleReq]
  /\ playlists' = PlaylistsAfterStart(tracks, playlists)
  /\ UNCHANGED <<tracks, nextId, pages>>

InitConc ==
  /\ tracks = <<>>
  /\ playlists = [p \in StoredPlaylistIds |-> NoTracks]
  /\ nextId = 1
  /\ req = [c \in ConcurrentClients |-> IdleReq]
  /\ pages = <<>>

NextConc ==
  \/ \E c \in DOMAIN req : ConcStartPost(c) /\ UNCHANGED pages
  \/ \E c \in DOMAIN req : PostSave(c) /\ UNCHANGED pages
  \/ \E c \in DOMAIN req : PostAdd(c) /\ UNCHANGED pages
  \/ \E c \in DOMAIN req : ConcStartPut(c) /\ UNCHANGED pages
  \/ \E c \in DOMAIN req : PutFindById(c) /\ UNCHANGED pages
  \/ \E c \in DOMAIN req : PutUpdate(c) /\ UNCHANGED pages
  \/ \E c \in DOMAIN req : PutReconcile(c) /\ UNCHANGED pages
  \/ \E c \in DOMAIN req : ConcStartDelete(c) /\ UNCHANGED pages
  \/ \E c \in DOMAIN req : DeleteTrack(c) /\ UNCHANGED pages
  \/ \E c \in DOMAIN req : ConcStartList(c) /\ UNCHANGED pages
  \/ \E c \in DOMAIN req : ListFind(c) /\ UNCHANGED pages
  \/ \E c \in DOMAIN req : ListCount(c) /\ UNCHANGED pages
  \/ \E c \in DOMAIN req : Finish(c) /\ UNCHANGED pages
  \/ Crash

SpecConc == InitConc /\ [][NextConc]_vars

\* ------------------------------------------------- the media proxy ----
\* The routes that forward to the upstream media API (src/routes/api.js).
\* They keep no state of their own; the upstream answers every call as it
\* likes: it fails, or it returns a listing.
ProxyKinds ==
  {"IMAGES", "IMAGE_DELETE", "IMAGE_RENAME", "AUDIO_FOLDER_NAMES", "FOLDERS",
   "AUDIOS", "AUDIO_DELETE", "AUDIO_RENAME", "AUDIO_FOLDERS"}
RenameKinds == {"IMAGE_RENAME", "AUDIO_RENAME"}
DeleteKinds == {"IMAGE_DELETE", "AUDIO_DELETE"}

\* What axios throws: a network error (no response), or an error status
\* whose body has or has not a message.
UpstreamFailures == {"no response", "response without message", "response with message"}
\* message: error.response?.data?.message || 'Internal server error'
ProxyMessage(failure) ==
  IF failure = "response with message" THEN "upstream message"
  ELSE "Internal server error"
\* catch (error) { res.status(500).json({ error: '...', message: ... }) }
ProxyCaught(r, f) ==
  Respond([r EXCEPT !.calls = @ + 1, !.detail = ProxyMessage(f)], 500, <<>>)

\* process.env.CLOUDINARY_CLOUD_NAME, ..._API_KEY, ..._API_SECRET: set or not.
Configs == [cloudName : BOOLEAN, apiKey : BOOLEAN, apiSecret : BOOLEAN]
\* if (!cloudName || !apiKey || !apiSecret)
OnlyCloudNameTested(cfg) == ~cfg.cloudName
ConfigMissing(cfg) == ~cfg.cloudName \/ ~cfg.apiKey \/ ~cfg.apiSecret

\* const { displayName } = req.body;  if (!displayName)
DisplayNames == {"undefined", "", " ", "name"}
OnlyUndefinedTested(v) == v = "undefined"
DisplayNameMissing(v) == v \in {"undefined", ""}

\* The first await of the route.
FirstCall(kind) ==
  CASE kind \in {"IMAGES", "AUDIO_FOLDER_NAMES"} -> "list"
    [] kind \in DeleteKinds -> "remove"
    [] kind \in RenameKinds -> "rename"
    [] kind = "AUDIOS" -> "search"
    [] OTHER -> "upstream"

\* The route up to its first await: the configuration check, then (rename)
\* the displayName check.
StartProxy(c) ==
  /\ Idle(c)
  /\ \E kind \in ProxyKinds, cfg \in Configs, name \in DisplayNames :
       /\ kind \notin RenameKinds => name = "undefined"
       /\ req' = [req EXCEPT ![c] =
            LET r == [IdleReq EXCEPT !.kind = kind, !.config = cfg, !.displayName = name]
            IN
            IF ConfigMissing(cfg)
            THEN Respond([r EXCEPT !.error = "Cloudinary configuration missing",
                                   !.detail = "Server configuration error"],
                         500, <<>>)
            ELSE IF kind \in RenameKinds /\ DisplayNameMissing(name)
            THEN Respond([r EXCEPT !.error = "Display name is required"], 400, <<>>)
            ELSE [r EXCEPT !.pc = FirstCall(kind),
                    !.stack = IF kind = "FOLDERS" THEN <<[path |-> <<>>, todo |-> <<>>]>>
                              ELSE <<>>]]
  /\ UNCHANGED <<tracks, playlists, nextId>>

\* GET /images, GET /audios/folders: const response = await axios.get(...)
\* (axios.post(...)); res.json(...)
ImagesCall(c) ==
  LET r == req[c] IN
  /\ r.kind \in {"IMAGES", "AUDIO_FOLDER_NAMES"} /\ r.pc = "list"
  /\ \/ req' = [req EXCEPT ![c] = Respond([r EXCEPT !.calls = @ + 1], 200, <<>>)]
     \/ \E f \in UpstreamFailures : req' = [req EXCEPT ![c] = ProxyCaught(r, f)]
  /\ UNCHANGED <<tracks, playlists, nextId>>

\* What the upstream answers to a delete it did not refuse: an HTTP status
\* of the 2xx family and a result.
DeleteAnswers == [status : {200, 202}, result : {"ok", "not found"}]
\* if (response.status === 200) (image); if (response.data.result === 'ok')
\* (audio)
StatusTested(kind, answer) == answer.status = 200
Deleted(kind, answer) ==
  IF kind = "IMAGE_DELETE" THEN answer.status = 200 ELSE answer.result = "ok"

\* DELETE /images/:publicId, DELETE /audios/:publicId:
\* const response = await axios.delete(...)
DeleteCall(c) ==
  LET r == req[c] IN
  /\ r.kind \in DeleteKinds /\ r.pc = "remove"
  /\ \/ \E a \in DeleteAnswers :
          req' = [req EXCEPT ![c] =
            LET next == [r EXCEPT !.calls = @ + 1, !.answer = a] IN
            IF Deleted(r.kind, a)
            THEN Respond([next EXCEPT !.detail = "deleted successfully"], 200, <<>>)
            ELSE Respond([next EXCEPT !.error = "Failed to delete",
                                      !.detail = "Cloudinary delete operation failed"],
                         400, <<>>)]
     \/ \E f \in UpstreamFailures :
          req' = [req EXCEPT ![c] = ProxyCaught([r EXCEPT !.error = "Failed to delete"], f)]
  /\ UNCHANGED <<tracks, playlists, nextId>>

\* PUT /images/:publicId, PUT /audios/:publicId:
\* const response = await axios.post(..., { display_name: displayName }, ...)
RenameCall(c) ==
  LET r == req[c] IN
  /\ r.kind \in RenameKinds /\ r.pc = "rename"
  /\ \/ req' = [req EXCEPT ![c] = Respond([r EXCEPT !.calls = @ + 1], 200, <<>>)]
     \/ \E f \in UpstreamFailures : req' = [req EXCEPT ![c] = ProxyCaught(r, f)]
  /\ UNCHANGED <<tracks, playlists, nextId>>

\* GET /audios: const audioResponse = await axios.post(...), outside the
\* walk's try: a failure ends the request in the route's catch.
AudiosSearch(c) ==
  LET r == req[c] IN
  /\ r.kind = "AUDIOS" /\ r.pc = "search"
  /\ \/ req' = [req EXCEPT ![c] =
          [r EXCEPT !.calls = @ + 1, !.pc = "upstream",
                    !.stack = <<[path |-> <<>>, todo |-> <<>>]>>]]
     \/ \E f \in UpstreamFailures : req' = [req EXCEPT ![c] = ProxyCaught(r, f)]
  /\ UNCHANGED <<tracks, playlists, nextId>>

\* The folder names of the upstream's listings, and the listings: the
\* folders of one answer, of different names, in the order the answer gives
\* them.
FolderNames == {"a", "b"}
Listings == {<<>>, <<"b">>, <<"b", "a">>}
\* const folderPath = `${currentPath}/${folder.name}` (getAllFolders); in
\* getAllSubfolders the path is the upstream's subfolder.path, which for a
\* folder listing is the listed folder's path and the subfolder's name.
FolderPath(currentPath, name) == Append(currentPath, name)

\* getAllFolders, from the return of one listing to the next listing it
\* awaits: finished loops return to their callers, the next folder of the
\* innermost unfinished loop is pushed to the result and walked.
RECURSIVE NextListing(_, _)
NextListing(stack, out) ==
  IF stack = <<>> THEN [stack |-> <<>>, out |-> out]
  ELSE LET n == Len(stack)
           top == stack[n]
       IN  IF top.todo = <<>> THEN NextListing(SubSeq(stack, 1, n - 1), out)
           ELSE LET child == FolderPath(top.path, Head(top.todo)) IN
                [stack |-> Append([stack EXCEPT ![n].todo = Tail(@)],
                                  [path |-> child, todo |-> <<>>]),
                 out |-> Append(out, [name |-> Head(top.todo), path |-> child])]

\* catch (error) { console.log(...) } inside the walk: the failure of a
\* listing is not thrown on to the route's catch.
Rethrown(failed) == failed
ThrownOutOfWalk(failed) == FALSE

\* GET /audios/folders/all and GET /audios: one await of axios.get in
\* getAllFolders / getAllSubfolders.  A listing that fails is caught in the
\* walk and counts as empty.  The upstream's folders have subfolders down
\* to MaxDepth levels.
FoldersCall(c) ==
  LET r == req[c]
      n == Len(r.stack)
  IN
  /\ r.kind \in {"FOLDERS", "AUDIOS"} /\ r.pc = "upstream"
  /\ \E failed \in BOOLEAN, listing \in Listings :
       /\ failed => listing = <<>>
       /\ listing # <<>> => Len(r.stack[n].path) < MaxDepth
       /\ LET after == NextListing([r.stack EXCEPT ![n].todo = listing], r.out)
              next == [r EXCEPT !.calls = @ + 1, !.failed = IF failed THEN @ \cup {r.stack[n].path} ELSE @,
                                !.stack = after.stack, !.out = after.out]
          IN  req' = [req EXCEPT ![c] =
                IF ThrownOutOfWalk(failed) THEN Respond(next, 500, <<>>)
                ELSE IF after.stack = <<>> THEN Respond(next, 200, <<>>) ELSE next]
  /\ UNCHANGED <<tracks, playlists, nextId>>

\* The values of next_cursor in an upstream answer: none, or a cursor.
Cursors == {"null", "k1", "k2"}

\* GET /audio-folders: one turn of do { ... } while (nextCursor) in
\* fetchAllVideoResources.  An answer has resources (here none or one, at
\* most MaxResources in all) and a next_cursor or none; a call that throws
\* ends the request in the route's catch.
AudioFoldersCall(c) ==
  LET r == req[c] IN
  /\ r.kind = "AUDIO_FOLDERS" /\ r.pc = "upstream"
  /\ \/ \E f \in UpstreamFailures :
          req' = [req EXCEPT ![c] =
            Respond([r EXCEPT !.calls = @ + 1, !.detail = ProxyMessage(f)], 500, <<>>)]
     \/ \E resources \in 0..1, nextCursor \in Cursors :
          /\ r.got + resources <= MaxResources
          /\ req' = [req EXCEPT ![c] =
               LET next == [r EXCEPT !.calls = IF @ < MaxCalls THEN @ + 1 ELSE @,
                                     !.got = @ + resources, !.cursor = nextCursor]
               IN  IF nextCursor # "null" THEN next ELSE Respond(next, 200, <<>>)]
  /\ UNCHANGED <<tracks, playlists, nextId>>

ProxyStep(c) ==
  /\ \/ ImagesCall(c) \/ DeleteCall(c) \/ RenameCall(c) \/ AudiosSearch(c)
     \/ FoldersCall(c) \/ AudioFoldersCall(c)
  /\ UNCHANGED pages

NextProxy ==
  \/ \E c \in DOMAIN req : StartProxy(c) /\ UNCHANGED pages
  \/ \E c \in DOMAIN req : ImagesCall(c) /\ UNCHANGED pages
  \/ \E c \in DOMAIN req : DeleteCall(c) /\ UNCHANGED pages
  \/ \E c \in DOMAIN req : RenameCall(c) /\ UNCHANGED pages
  \/ \E c \in DOMAIN req : AudiosSearch(c) /\ UNCHANGED pages
  \/ \E c \in DOMAIN req : FoldersCall(c) /\ UNCHANGED pages
  \/ \E c \in DOMAIN req : AudioFoldersCall(c) /\ UNCHANGED pages
  \/ \E c \in DOMAIN req : Finish(c) /\ UNCHANGED pages

\* Every upstream call returns or fails: a handler that awaits one goes on.
SpecProxy ==
  Init /\ [][NextProxy]_vars /\ \A c \in Clients : WF_vars(ProxyStep(c))

\* ------------------------------------------- every route of the server ----
\* One caller of the Track routes and of the media proxy routes alike.  The
\* Track requests carry a body that names a Playlist, one that names none and
\* one the validation refuses, on an identifier that is stored, unknown or
\* malformed.
RouteBodies ==
  ConcBodies \cup {[EmptyBody EXCEPT !.playlists = PlArray(<<>>)],
                   [EmptyBody EXCEPT !.title = Str(0, MaxTitleLen + 1)]}
RouteIds == Issued(nextId) \cup {GhostId, BadId}

RouteStartPost(c) == PostRequest(c, RouteBodies, MaxConcTracks)
RouteStartPut(c) == PutRequest(c, RouteIds, RouteBodies)
RouteStartDelete(c) == DeleteRequest(c, RouteIds)

NextRoutes ==
  \/ \E c \in DOMAIN req : RouteStartPost(c) /\ UNCHANGED pages
  \/ \E c \in DOMAIN req : PostSave(c) /\ UNCHANGED pages
  \/ \E c \in DOMAIN req : PostAdd(c) /\ UNCHANGED pages
  \/ \E c \in DOMAIN req : RouteStartPut(c) /\ UNCHANGED pages
  \/ \E c \in DOMAIN req : PutFindById(c) /\ UNCHANGED pages
  \/ \E c \in DOMAIN req : PutUpdate(c) /\ UNCHANGED pages
  \/ \E c \in DOMAIN req : PutReconcile(c) /\ UNCHANGED pages
  \/ \E c \in DOMAIN req : RouteStartDelete(c) /\ UNCHANGED pages
  \/ \E c \in DOMAIN req : DeleteTrack(c) /\ UNCHANGED pages
  \/ \E c \in DOMAIN req : StartGet(c) /\ UNCHANGED pages
  \/ \E c \in DOMAIN req : GetById(c) /\ UNCHANGED pages
  \/ \E c \in DOMAIN req : ConcStartList(c) /\ UNCHANGED pages
  \/ \E c \in DOMAIN req : ListFind(c) /\ UNCHANGED pages
  \/ \E c \in DOMAIN req : ListCount(c) /\ UNCHANGED pages
  \/ \E c \in DOMAIN req : StartProxy(c) /\ UNCHANGED pages
  \/ \E c \in DOMAIN req : ImagesCall(c) /\ UNCHANGED pages
  \/ \E c \in DOMAIN req : DeleteCall(c) /\ UNCHANGED pages
  \/ \E c \in DOMAIN req : RenameCall(c) /\ UNCHANGED pages
  \/ \E c \in DOMAIN req : AudiosSearch(c) /\ UNCHANGED pages
  \/ \E c \in DOMAIN req : FoldersCall(c) /\ UNCHANGED pages
  \/ \E c \in DOMAIN req : AudioFoldersCall(c) /\ UNCHANGED pages
  \/ \E c \in DOMAIN req : Finish(c) /\ UNCHANGED pages

SpecRoutes == Init /\ [][NextRoutes]_vars

\* ------------------------------------------------- the list, searched ----
\* The lists over a collection whose Tracks have text that a filter or a
\* search can tell apart.  The collection is one that creates leave behind:
\* each document is what POST stores for a body that passes the rules.
SearchBodies ==
  {EmptyBody, FullBody,
   [EmptyBody EXCEPT !.title = Txt(<<"a", "b">>), !.author = Txt(<<"b">>),
                     !.category = Txt(<<"a">>)],
   [EmptyBody EXCEPT !.author = Txt(<<"b", "A", "B">>)],
   [EmptyBody EXCEPT !.description = Txt(<<"b", "a">>), !.author = Txt(<<"a">>),
                     !.category = Txt(<<"a">>)]}

InitSearch ==
  /\ \E n \in 0..MaxTracks :
       \E b \in [1..n -> {x \in SearchBodies : trackValidationRules(x) = {}}] :
         /\ tracks = [i \in 1..n |-> NewTrackDoc(Sanitize(b[i]), i)]
         /\ nextId = n + 1
  /\ playlists = [p \in StoredPlaylistIds |-> NoTracks]
  /\ req = [c \in Clients |-> IdleReq]
  /\ pages = <<>>

SearchStartList(c) == ListRequest(c, FilterQueries)

NextSearch ==
  \/ \E c \in DOMAIN req : SearchStartList(c) /\ UNCHANGED pages
  \/ \E c \in DOMAIN req : ListFind(c) /\ UNCHANGED pages
  \/ \E c \in DOMAIN req : ListCount(c) /\ UNCHANGED pages
  \/ \E c \in DOMAIN req : Finish(c) /\ UNCHANGED pages

SpecSearch == InitSearch /\ [][NextSearch]_vars

\* ------------------------------------------------ the Page collection ----
\* POST /api/pages over the Page collection.  A title and a slug are the
\* sequences of their characters, <<>> when the field is absent.
PageTitles == {<<>>, <<"A">>, <<"a">>, <<"a", " ", "b">>}
PageSlugs == {<<>>, <<"a">>, <<"b">>}

\* The slug derived from a title: lower case, a hyphen for every blank.
Slugify(title) ==
  [i \in DOMAIN title |-> IF title[i] = " " THEN "-" ELSE Fold(title[i])]
SlugOf(b) == IF b.slug = <<>> THEN Slugify(b.title) ELSE b.slug

\* The unique index on slug: a save of a document whose slug a stored Page
\* has is refused.
NeverTaken(pgs, slug) == FALSE
SlugTaken(pgs, slug) == \E i \in DOMAIN pgs : pgs[i].slug = slug

\* The title is required: a request without one is answered 400 by the
\* validation and reaches no write.
StartPagePost(c) ==
  /\ Idle(c)
  /\ \E t \in PageTitles, g \in PageSlugs :
       req' = [req EXCEPT ![c] =
         [IdleReq EXCEPT
           !.kind = "PAGE", !.pageBody = [title |-> t, slug |-> g],
           !.pc = IF t = <<>> THEN "done" ELSE "savePage",
           !.status = IF t = <<>> THEN 400 ELSE 0,
           !.responses = IF t = <<>> THEN 1 ELSE 0,
           !.prePages = pages]]
  /\ UNCHANGED <<tracks, playlists, nextId, pages>>

\* The save of the new Page: refused with a ValidationError when the slug is
\* taken, stored otherwise.
SavePage(c) ==
  LET r == req[c]
      slug == SlugOf(r.pageBody)
  IN
  /\ r.kind = "PAGE" /\ r.pc = "savePage"
  /\ \/ /\ \E env \in NodeEnvs :
            req' = [req EXCEPT ![c] = Caught([r EXCEPT !.rejected = TRUE], env)]
        /\ UNCHANGED pages
     \/ /\ SlugTaken(pages, slug)
        /\ req' = [req EXCEPT ![c] =
             Respond([r EXCEPT !.detail = "ValidationError"], 400, <<>>)]
        /\ UNCHANGED pages
     \/ /\ ~SlugTaken(pages, slug)
        /\ pages' = Append(pages, [title |-> r.pageBody.title, slug |-> slug])
        /\ req' = [req EXCEPT ![c] = Respond([r EXCEPT !.wrote = TRUE], 201, <<slug>>)]
  /\ UNCHANGED <<tracks, playlists, nextId>>

NextPages ==
  \/ \E c \in DOMAIN req : StartPagePost(c)
  \/ \E c \in DOMAIN req : SavePage(c)
  \/ \E c \in DOMAIN req : Finish(c) /\ UNCHANGED pages

SpecPages == Init /\ [][NextPages]_vars

\* ========================================================= properties ====
Done(c) == req[c].pc = "done"
Count(s, x) == Cardinality({i \in DOMAIN s : s[i] = x})
AllAccepted(r) == \A i \in DOMAIN r.attempts : r.attempts[i].ok
Attempted(r) == [i \in DOMAIN r.attempts |->
                   [op |-> r.attempts[i].op, pid |-> r.attempts[i].pid]]

\* C1: after every completed Track create, update or delete, for every stored
\* Track T and every Playlist P, P is in T.playlists if and only if T's
\* identifier is in P.tracks.
C1_RelationshipConsistency ==
  \A c \in Clients :
    (Done(c) /\ req[c].kind \in {"POST", "PUT", "DELETE"}) =>
      \A t \in DOMAIN tracks, p \in DOMAIN playlists :
        (p \in Range(tracks[t].playlists)) <=> (t \in DOMAIN playlists[p])

\* C2: after a successful Track create, every named Playlist was sent one add
\* per mention, holds the new Track's identifier at most once, and holds it
\* exactly once when the store accepted an add for it -- also when the request
\* names the same Playlist more than once.
C2_CreateAddsOnce ==
  \A c \in Clients :
    LET r == req[c] IN
    (Done(c) /\ r.kind = "POST" /\ r.status = 201) =>
      \A p \in Range(r.body.playlists.ids) \cap DOMAIN playlists :
        /\ Copies(playlists[p], r.id) <= 1
        /\ Count(Attempted(r), [op |-> "add", pid |-> p]) = Count(r.body.playlists.ids, p)
        /\ (\E i \in DOMAIN r.attempts : r.attempts[i].pid = p /\ r.attempts[i].ok)
             => Copies(playlists[p], r.id) = 1

C2_Witness ==
  \E c \in Clients :
    /\ Done(c) /\ req[c].kind = "POST" /\ req[c].status = 201
    /\ req[c].body.playlists.ids = <<"p1", "p1">>
    /\ AllAccepted(req[c])
    /\ Copies(playlists["p1"], req[c].id) = 1

\* C3: after a successful Track update from playlist set A to the supplied set
\* B (every reconciliation call accepted), no Playlist of A\B holds the Track's
\* identifier, every Playlist of B\A holds it, and the tracks of every Playlist
\* of A/\B are unchanged.  A is the set of Playlists the Track belonged to
\* before the update.
C3_UpdateDiff ==
  \A c \in Clients :
    LET r == req[c]
        A == {p \in DOMAIN r.prePlaylists : r.id \in DOMAIN r.prePlaylists[p]}
        B == Range(r.body.playlists.ids)
    IN
    (Done(c) /\ r.kind = "PUT" /\ r.status = 200 /\ r.body.playlists.present
       /\ AllAccepted(r)) =>
      \A p \in DOMAIN playlists :
        /\ p \in A \ B => r.id \notin DOMAIN playlists[p]
        /\ p \in B \ A => r.id \in DOMAIN playlists[p]
        /\ p \in A \cap B => playlists[p] = r.prePlaylists[p]

\* C4: after a successful create declaring memberships S, or a successful
\* update supplying playlists B, the stored Track's playlists set is S (B).
C4_TrackRecordsMemberships ==
  \A c \in Clients :
    LET r == req[c] IN
    (Done(c) /\ r.kind \in {"POST", "PUT"} /\ r.status \in {200, 201}
       /\ r.body.playlists.present /\ r.id \in DOMAIN tracks) =>
      Range(tracks[r.id].playlists) = Range(r.body.playlists.ids)

\* C5: a Track delete whose identifier resolves to no stored Track changes no
\* Track and no Playlist document, never answers success, and answers 404
\* whenever the store answered the lookup.
C5_DeleteMissing ==
  \A c \in Clients :
    LET r == req[c] IN
    (Done(c) /\ r.kind = "DELETE" /\ IsMongoId(r.id) /\ r.id \notin DOMAIN r.preTracks) =>
      /\ tracks = r.preTracks
      /\ playlists = r.prePlaylists
      /\ r.status \in {404, 500}
      /\ ~r.rejected => r.status = 404

C5_Witness ==
  \E c \in Clients :
    /\ Done(c) /\ req[c].kind = "DELETE" /\ req[c].status = 404
    /\ req[c].id \in TrackIds /\ req[c].id < nextId
    /\ \E p \in DOMAIN playlists : req[c].id \in DOMAIN playlists[p]
    /\ DOMAIN tracks # {}

\* C6: a Track create that names a well-formed identifier of no Playlist, and
\* whose Track write the store accepted, stores the Track and answers 201; no
\* Playlist document appears, and every named Playlist is still sent its add
\* (a stored Playlist whose add was accepted holds the new identifier).
C6_MissingPlaylistTolerated ==
  \A c \in Clients :
    LET r == req[c] IN
    (Done(c) /\ r.kind = "POST" /\ ~r.rejected
       /\ \E i \in DOMAIN r.body.playlists.ids :
            r.body.playlists.ids[i] \notin DOMAIN r.prePlaylists) =>
      /\ r.status = 201
      /\ r.id \in DOMAIN tracks /\ r.id \notin DOMAIN r.preTracks
      /\ DOMAIN playlists = DOMAIN r.prePlaylists
      /\ Attempted(r) = Steps("add", r.body.playlists.ids)
      /\ \A i \in DOMAIN r.attempts :
           (r.attempts[i].ok /\ r.attempts[i].pid \in DOMAIN playlists)
             => r.id \in DOMAIN playlists[r.attempts[i].pid]

C6_Witness ==
  \E c \in Clients :
    /\ Done(c) /\ req[c].kind = "POST" /\ req[c].status = 201
    /\ req[c].body.playlists.ids = <<"p3", "p1">>
    /\ req[c].id \in DOMAIN tracks
    /\ req[c].id \in DOMAIN playlists["p1"]
    /\ "p3" \notin DOMAIN playlists

\* C7: a Track request whose input breaks a validation rule (a playlist
\* identifier that is not 24 hex characters, a playlists value that is no
\* array, an over-length title, author, description or category, a malformed
\* thumbnail or audioUrl, a malformed track id) is answered 400 and no Track
\* or Playlist document changes: no store write was made.
C7_ValidationBeforeWrite ==
  \A c \in Clients :
    LET r == req[c] IN
    (r.pc # "idle" /\ r.malformed) =>
      /\ Done(c) /\ r.status = 400
      /\ tracks = r.preTracks /\ playlists = r.prePlaylists
      /\ ~r.wrote /\ r.attempts = <<>>

C7_Witness ==
  \E c \in Clients :
    /\ Done(c) /\ req[c].kind = "PUT" /\ req[c].malformed /\ req[c].status = 400
    /\ req[c].id \in DOMAIN tracks
    /\ \E p \in DOMAIN playlists : playlists[p] # NoTracks

\* C8: once the Track write of a create or update succeeded, every step of
\* its reconciliation loops is attempted in order whether or not the store
\* rejected an earlier one, the Track stays stored, and the request answers
\* success (201 for create, 200 for update).
C8_BestEffort ==
  \A c \in Clients :
    LET r == req[c] IN
    (Done(c) /\ r.kind \in {"POST", "PUT"} /\ r.wrote) =>
      /\ r.status = IF r.kind = "POST" THEN 201 ELSE 200
      /\ r.id \in DOMAIN tracks
      /\ Attempted(r) = IF r.kind = "POST"
                        THEN Steps("add", r.body.playlists.ids)
                        ELSE PutSteps(r.old, r.body.playlists)

C8_Witness ==
  \E c \in Clients :
    /\ Done(c) /\ req[c].kind = "PUT" /\ req[c].status = 200
    /\ Len(req[c].attempts) = 2
    /\ ~req[c].attempts[1].ok /\ req[c].attempts[2].ok
    /\ req[c].id \in DOMAIN tracks
    /\ req[c].id \in DOMAIN playlists[req[c].attempts[2].pid]
    /\ req[c].id \notin DOMAIN playlists[req[c].attempts[1].pid]

\* C9: a Track delete leaves the tracks array of every Playlist as it was,
\* also of the Playlists that hold the deleted Track's identifier; a
\* successful delete removes that Track and no other.
C9_DeleteLeavesPlaylists ==
  \A c \in Clients :
    LET r == req[c] IN
    (Done(c) /\ r.kind = "DELETE") =>
      /\ playlists = r.prePlaylists
      /\ r.status = 200 =>
           /\ r.id \in DOMAIN r.preTracks
           /\ DOMAIN tracks = DOMAIN r.preTracks \ {r.id}
           /\ \A t \in DOMAIN tracks : tracks[t] = r.preTracks[t]

C9_Witness ==
  \E c \in Clients :
    /\ Done(c) /\ req[c].kind = "DELETE" /\ req[c].status = 200
    /\ req[c].id \notin DOMAIN tracks
    /\ \E p \in DOMAIN playlists : req[c].id \in DOMAIN playlists[p]

\* C10: a successful Track list with page p >= 1 and limit l >= 1 over M
\* matching Tracks returns the items at positions (p-1)*l+1 .. min(p*l, M) of
\* the order by creation time, most recent first: none when (p-1)*l >= M, and
\* otherwise the k-th returned item has exactly (p-1)*l + k - 1 matching
\* Tracks created after it.
C10_ListPage ==
  \A c \in Clients :
    LET r == req[c]
        p == PageOf(r.page)
        l == LimitOf(r.limit)
        S == {t \in DOMAIN tracks : Matches(tracks[t], QueryOf(r))}
        M == Cardinality(S)
    IN
    (Done(c) /\ r.kind = "LIST" /\ r.status = 200 /\ p >= 1 /\ l >= 1) =>
      /\ Len(r.items) = IF (p - 1) * l >= M THEN 0 ELSE Min(p * l, M) - (p - 1) * l
      /\ \A k \in DOMAIN r.items :
           /\ r.items[k] \in S
           /\ Cardinality({t \in S : tracks[t].createdAt > tracks[r.items[k]].createdAt})
                = (p - 1) * l + k - 1

C10_Witness ==
  \E c \in Clients :
    /\ Done(c) /\ req[c].kind = "LIST" /\ req[c].status = 200
    /\ req[c].page = Param(2) /\ req[c].limit = Param(1) /\ req[c].category = Absent
    /\ Cardinality(DOMAIN tracks) = 2
    /\ Len(req[c].items) = 1
    /\ \A t \in DOMAIN tracks : tracks[req[c].items[1]].createdAt <= tracks[t].createdAt

\* C11: a successful Track list with page p >= 1 and limit l >= 1 carries
\* currentPage = p (1 when absent), itemsPerPage = l (10 when absent),
\* totalItems = the number of Tracks matching the filters, and totalPages =
\* the least natural number n with n * l >= totalItems.
C11_PaginationMetadata ==
  \A c \in Clients :
    LET r == req[c]
        p == IF r.page = NoParam THEN 1 ELSE r.page[1]
        l == IF r.limit = NoParam THEN 10 ELSE r.limit[1]
        M == Cardinality({t \in DOMAIN tracks : Matches(tracks[t], QueryOf(r))})
    IN
    (Done(c) /\ r.kind = "LIST" /\ r.status = 200 /\ p >= 1 /\ l >= 1) =>
      /\ r.pagination.currentPage = p
      /\ r.pagination.itemsPerPage = l
      /\ r.pagination.totalItems = M
      /\ r.pagination.totalPages \in 0..M
      /\ r.pagination.totalPages * l >= M
      /\ r.pagination.totalPages > 0 => (r.pagination.totalPages - 1) * l < M

C11_Witness ==
  \E c \in Clients :
    /\ Done(c) /\ req[c].kind = "LIST" /\ req[c].status = 200
    /\ req[c].page = Param(1) /\ req[c].limit = Param(2)
    /\ req[c].pagination.totalItems = 1
    /\ req[c].pagination.totalPages = 1

\* The term occurs in the text as it is written, letter case aside.
ContainsIgnoringCase(text, term) ==
  \E i \in 1..(Len(text) - Len(term) + 1) :
    \A k \in DOMAIN term : Fold(term[k]) = Fold(text[i + k - 1])
\* The whole matching set is on the page: the paging is the default one.
Unpaged(r) == r.page = NoParam /\ r.limit = NoParam

\* C12: a successful Track list with a search term (and no other filter)
\* returns exactly the Tracks for which at least one of title, description,
\* author or category contains the term, letter case aside.
C12_SearchContains ==
  \A c \in Clients :
    LET r == req[c] IN
    (Done(c) /\ r.kind = "LIST" /\ r.status = 200 /\ Unpaged(r)
       /\ Truthy(r.search) /\ r.category = Absent /\ r.author = Absent) =>
      Range(r.items) =
        {t \in DOMAIN tracks :
           \E path \in {"title", "description", "author", "category"} :
             /\ tracks[t][path] # Absent
             /\ ContainsIgnoringCase(Chars(tracks[t][path]), Chars(r.search))}

\* C13: the Tracks of a successful list meet every supplied (non-empty)
\* filter -- the category, the author pattern, and one of the four searched
\* fields for the search term -- and every stored Track that meets them all
\* is counted; a list without filters returns and counts every Track.
C13_FiltersConjoin ==
  \A c \in Clients :
    LET r == req[c]
        Meets(t) ==
          /\ Truthy(r.category) => tracks[t].category = r.category
          /\ Truthy(r.author) => RegexOnPath(tracks[t], "author", r.author)
          /\ Truthy(r.search) =>
               \/ RegexOnPath(tracks[t], "title", r.search)
               \/ RegexOnPath(tracks[t], "description", r.search)
               \/ RegexOnPath(tracks[t], "author", r.search)
               \/ RegexOnPath(tracks[t], "category", r.search)
    IN
    (Done(c) /\ r.kind = "LIST" /\ r.status = 200) =>
      /\ \A k \in DOMAIN r.items : r.items[k] \in DOMAIN tracks /\ Meets(r.items[k])
      /\ r.pagination.totalItems = Cardinality({t \in DOMAIN tracks : Meets(t)})
      /\ Unpaged(r) => Range(r.items) = {t \in DOMAIN tracks : Meets(t)}
      /\ (~Truthy(r.category) /\ ~Truthy(r.author) /\ ~Truthy(r.search)) =>
           r.pagination.totalItems = Cardinality(DOMAIN tracks)

C13_Witness ==
  \E c \in Clients :
    LET r == req[c] IN
    /\ Done(c) /\ r.kind = "LIST" /\ r.status = 200
    /\ r.category = Txt(<<"a">>) /\ r.author = Txt(<<"B">>) /\ r.search = Txt(<<"A", "b">>)
    /\ Len(r.items) = 1
    /\ \E t \in DOMAIN tracks \ Range(r.items) :
         tracks[t].category = r.category /\ tracks[t].author = Txt(<<"a">>)

\* The reconciliation steps a create or update computes from its request.
ComputedSteps(r) ==
  IF r.kind = "POST" THEN Steps("add", r.body.playlists.ids)
  ELSE PutSteps(r.old, r.body.playlists)

\* C15: when a Track create or update has answered, no step of it is left to
\* do: a success answer comes after the one Track write and after as many
\* playlist calls as the request computed steps, any other answer comes with
\* no playlist call made.
C15_RespondsAfterReconciliation ==
  \A c \in Clients :
    LET r == req[c] IN
    (Done(c) /\ r.kind \in {"POST", "PUT"}) =>
      /\ r.todo = <<>>
      /\ r.status \in {200, 201} =>
           r.saves = 1 /\ Len(r.attempts) = Len(ComputedSteps(r))
      /\ r.status \notin {200, 201} => r.attempts = <<>>

C15_Witness ==
  \E c \in Clients :
    /\ Done(c) /\ req[c].kind = "POST" /\ req[c].status = 201
    /\ Len(req[c].attempts) = 2 /\ req[c].todo = <<>>
    /\ req[c].attempts[2].ok
    /\ req[c].id \in DOMAIN playlists[req[c].attempts[2].pid]

\* C16: at every moment of a Track create or update, the playlist calls made
\* so far are the first calls of the computed list of steps, each made once
\* and in order, whether the store accepted or rejected them; the Track
\* write was called at most once.
C16_NothingRetried ==
  \A c \in Clients :
    LET r == req[c] IN
    r.kind \in {"POST", "PUT"} =>
      /\ r.saves <= 1
      /\ Len(r.attempts) <= Len(ComputedSteps(r))
      /\ Attempted(r) = SubSeq(ComputedSteps(r), 1, Len(r.attempts))
      /\ r.attempts # <<>> => r.saves = 1

C16_Witness ==
  \E c \in Clients :
    /\ Done(c) /\ req[c].kind = "PUT" /\ req[c].status = 200
    /\ Len(req[c].attempts) = 2
    /\ req[c].attempts[1].pid # req[c].attempts[2].pid
    /\ ~req[c].attempts[1].ok /\ ~req[c].attempts[2].ok
    /\ \A p \in DOMAIN playlists : req[c].id \notin DOMAIN playlists[p]

\* C20: after a successful update of a stored Track, every field of the
\* Track that the request supplied has the supplied value, every other field
\* has the value it had before, and every other Track is as it was.
C20_PartialMerge ==
  \A c \in Clients :
    LET r == req[c] IN
    (Done(c) /\ r.kind = "PUT" /\ r.status = 200 /\ r.id \in DOMAIN r.preTracks) =>
      /\ DOMAIN tracks = DOMAIN r.preTracks
      /\ \A t \in DOMAIN tracks \ {r.id} : tracks[t] = r.preTracks[t]
      /\ \A f \in {"title", "author", "description", "category", "thumbnail", "audioUrl"} :
           tracks[r.id][f] = IF r.body[f] = Absent THEN r.preTracks[r.id][f] ELSE r.body[f]
      /\ tracks[r.id].createdAt = r.preTracks[r.id].createdAt
      /\ tracks[r.id].playlists = IF r.body.playlists.present THEN r.body.playlists.ids
                                  ELSE r.preTracks[r.id].playlists

\* C14: an update answers success only with the updated Track, it adds its
\* identifier to a Playlist only while that Track is stored, and an update
\* that answers "not found" has written nothing -- also when another
\* caller's delete runs between its findById and its findByIdAndUpdate.
C14_UpdateNotFound ==
  \A c \in DOMAIN req :
    LET r == req[c] IN
    r.kind = "PUT" =>
      /\ (Done(c) /\ r.status = 200) => (r.wrote /\ r.data = <<r.id>>)
      /\ (Done(c) /\ r.status = 404) => (~r.wrote /\ r.attempts = <<>>)
      /\ \A i \in DOMAIN r.attempts :
           (r.attempts[i].op = "add" /\ r.attempts[i].ok) => r.attempts[i].stored

\* Some Playlist and some stored Track disagree about the membership.
Disagree ==
  \E p \in DOMAIN playlists :
    \E t \in DOMAIN tracks \cup DOMAIN playlists[p] :
      (t \in DOMAIN tracks /\ p \in Range(tracks[t].playlists)) # (t \in DOMAIN playlists[p])
\* The handler of c makes one of its store calls in this step.
HandlerStep(c) ==
  /\ req[c].pc \in {"save", "update", "reconcile", "delete"}
  /\ req'[c].pc \in {"reconcile", "done"}
  /\ req'[c].kind = req[c].kind

C18_NoLeak ==
  \A c \in DOMAIN req :
    LET r == req[c] IN
    (Done(c) /\ r.status = 500) =>
      IF r.kind \in ProxyKinds
      THEN r.detail \in {"Internal server error", "Server configuration error"}
      ELSE r.detail = "error.message" => r.env = "development"

\* C19: every proxy request that awaits the upstream is answered in the end,
\* provided every upstream call returns or fails.
C19_Terminates ==
  \A c \in Clients : (req[c].pc = "upstream") ~> (req[c].pc = "done")

\* C21: a Track delete whose identifier resolves, and whose store call was
\* accepted, answers 200 with the id and the title of the deleted Track,
\* removes that Track and leaves every other Track as it was; a get-by-id
\* the store answers finds a Track exactly when it is stored, so a get of
\* the deleted identifier answers 404.
C21_DeleteRemovesExactly ==
  \A c \in Clients :
    LET r == req[c] IN
    /\ (Done(c) /\ r.kind = "DELETE" /\ r.id \in DOMAIN r.preTracks /\ ~r.rejected) =>
         /\ r.status = 200
         /\ r.data = <<r.id, r.preTracks[r.id].title>>
         /\ DOMAIN tracks = DOMAIN r.preTracks \ {r.id}
         /\ \A t \in DOMAIN tracks : tracks[t] = r.preTracks[t]
    /\ (Done(c) /\ r.kind = "GET" /\ ~r.malformed /\ ~r.rejected) =>
         /\ r.status = IF r.id \in DOMAIN tracks THEN 200 ELSE 404
         /\ r.id \notin DOMAIN tracks => r.data = <<>>

C21_Witness ==
  \E c \in Clients :
    LET r == req[c] IN
    /\ Done(c) /\ r.kind = "DELETE" /\ r.status = 200
    /\ r.preTracks[r.id].title # Absent
    /\ DOMAIN tracks # {}

\* C22: no two stored Pages have the same slug; a Page created without a
\* slug is stored under the lower-cased, hyphenated title; a create whose
\* slug a stored Page already has is answered with a ValidationError and
\* stores nothing.
C22_SlugsUnique ==
  /\ \A i, j \in DOMAIN pages : pages[i].slug = pages[j].slug => i = j
  /\ \A c \in Clients :
       LET r == req[c]
           t == r.pageBody.title
           given == r.pageBody.slug
           want == IF given # <<>> THEN given
                   ELSE [i \in 1..Len(t) |->
                           CASE t[i] = " " -> "-"
                             [] t[i] = "A" -> "a"
                             [] OTHER -> t[i]]
           collides == \E i \in DOMAIN r.prePages : r.prePages[i].slug = want
       IN
       (Done(c) /\ r.kind = "PAGE" /\ t # <<>> /\ ~r.rejected) =>
         IF collides
           THEN r.status = 400 /\ r.detail = "ValidationError" /\ pages = r.prePages
           ELSE /\ r.status = 201
                /\ pages = Append(r.prePages, [title |-> t, slug |-> want])

C22_Witness ==
  \E c \in Clients :
    LET r == req[c] IN
    /\ Done(c) /\ r.kind = "PAGE" /\ r.status = 400 /\ r.detail = "ValidationError"
    /\ r.pageBody = [title |-> <<"A">>, slug |-> <<>>]
    /\ \E i \in DOMAIN pages : pages[i].title = <<"a">> /\ pages[i].slug = <<"a">>
    /\ Len(pages) = 2

\* C23: every identifier in a Playlist's tracks array was handed out by an
\* accepted save of a Track, whatever creates, updates and deletes two
\* callers interleave: an update reaches its Playlist writes only after its
\* findById found the Track.
C23_OnlyPersistedIds ==
  \A p \in DOMAIN playlists :
    \A id \in DOMAIN playlists[p] : id \in Issued(nextId)

C23_Witness ==
  /\ \E p \in DOMAIN playlists : \E id \in DOMAIN playlists[p] : id \notin DOMAIN tracks
  /\ \E c \in DOMAIN req :
       /\ Done(c) /\ req[c].kind = "PUT" /\ req[c].id = GhostId /\ req[c].status = 404

\* C24: a Track update without a playlists field makes no Playlist write
\* and leaves every Playlist's tracks as it was; an update with an empty
\* playlists array is reconciled against the new set {}: when its calls
\* were accepted, no Playlist holds the Track any more.
C24_AbsentVersusEmpty ==
  \A c \in Clients :
    LET r == req[c] IN
    (Done(c) /\ r.kind = "PUT" /\ r.status = 200) =>
      /\ ~r.body.playlists.present =>
           r.attempts = <<>> /\ playlists = r.prePlaylists
      /\ (r.body.playlists.present /\ r.body.playlists.ids = <<>> /\ AllAccepted(r)) =>
           \A p \in DOMAIN playlists : r.id \notin DOMAIN playlists[p]

\* C26: a successful Track list with page p >= 1 and limit l >= 1 returns
\* min(l, max(0, totalItems - (p - 1) * l)) items, never more than
\* totalItems -- also when another caller's create or delete runs between
\* the list's find and its countDocuments.
C26_ItemsWithinTotal ==
  \A c \in DOMAIN req :
    LET r == req[c]
        p == IF r.page = NoParam THEN DefaultPage ELSE r.page[1]
        l == IF r.limit = NoParam THEN DefaultLimit ELSE r.limit[1]
        rest == r.pagination.totalItems - (p - 1) * l
    IN
    (Done(c) /\ r.kind = "LIST" /\ r.status = 200 /\ p >= 1 /\ l >= 1) =>
      /\ Len(r.items) <= r.pagination.totalItems
      /\ Len(r.items) = Min(l, IF rest > 0 THEN rest ELSE 0)

\* C27: a media proxy request is answered 500 'Cloudinary configuration
\* missing' without any upstream call whenever the cloud name, the API key
\* or the API secret is unset; a request goes on to the upstream only with
\* all three set.
C27_ConfigurationChecked ==
  \A c \in Clients :
    LET r == req[c] IN
    r.kind \in ProxyKinds =>
      IF r.config.cloudName /\ r.config.apiKey /\ r.config.apiSecret
      THEN r.error # "Cloudinary configuration missing"
      ELSE /\ Done(c) /\ r.status = 500 /\ r.calls = 0
           /\ r.error = "Cloudinary configuration missing"

C27_Witness ==
  \E c \in Clients :
    LET r == req[c] IN
    /\ r.kind = "AUDIO_RENAME" /\ r.displayName = "name"
    /\ Done(c) /\ r.status = 500 /\ r.calls = 0
    /\ r.config.cloudName /\ r.config.apiKey /\ ~r.config.apiSecret

\* C28: a rename without a displayName, or with the empty one, is answered
\* 400 without any upstream call when the configuration is complete, and
\* 500 when it is not; a rename that reached the upstream has a displayName
\* that is not empty.
C28_RenameNeedsDisplayName ==
  \A c \in Clients :
    LET r == req[c]
        complete == r.config.cloudName /\ r.config.apiKey /\ r.config.apiSecret
        named == r.displayName \notin {"undefined", ""}
    IN
    r.kind \in RenameKinds =>
      /\ ~named => Done(c) /\ r.calls = 0 /\ r.status = IF complete THEN 400 ELSE 500
      /\ (r.calls > 0 \/ r.pc = "rename") => named /\ complete

C28_Witness ==
  \E c \in Clients :
    LET r == req[c] IN
    /\ r.kind = "AUDIO_RENAME" /\ Done(c) /\ r.status = 400 /\ r.displayName = ""
    /\ r.calls = 0 /\ r.error = "Display name is required"

C30_AudioDeleteOutcome ==
  \A c \in Clients :
    LET r == req[c] IN
    (r.kind = "AUDIO_DELETE" /\ Done(c)) =>
      /\ r.calls <= 1
      /\ r.error # "Cloudinary configuration missing" => r.calls = 1
      /\ r.status = 200 <=> (r.answer # <<>> /\ r.answer.result = "ok")
      /\ r.status = 200 => r.detail = "deleted successfully"
      /\ (r.answer # <<>> /\ r.answer.result # "ok") => r.status = 400
      /\ (r.calls = 1 /\ r.answer = <<>>) => r.status = 500

C30_Witness ==
  \E c \in Clients :
    LET r == req[c] IN
    /\ r.kind = "AUDIO_DELETE" /\ Done(c) /\ r.status = 400 /\ r.calls = 1
    /\ r.answer = [status |-> 200, result |-> "not found"]

\* C25: a handler that has ended sent one response, a handler still at work
\* has sent none, and no handler sends two, whichever way it ends:
\* validation failure, not found, success, or a caught store or upstream
\* error.
C25_ExactlyOneResponse ==
  \A c \in Clients :
    LET r == req[c] IN
    /\ r.responses <= 1
    /\ Done(c) <=> r.responses = 1
    /\ Done(c) => r.status \in {200, 201, 400, 404, 500}

C25_Witness ==
  \E c \in Clients :
    LET r == req[c] IN
    /\ r.kind = "PUT" /\ Done(c) /\ r.status = 404 /\ r.responses = 1
    /\ r.id \notin DOMAIN tracks /\ ~r.wrote

=============================================================================
